---- MODULE Spec2Model ----
(***************************************************************************)
(* A model of app.py: an HTTP front end that serves directory trees as     *)
(* S3-style buckets.  A request is validated, classified, authenticated    *)
(* (HMAC signature), authorised (per-credential permission map) and then   *)
(* executed against the filesystem.                                        *)
(*                                                                         *)
(* Text (header values, keys, paths) is a sequence of one-character        *)
(* strings, so that split, count, join and normalisation are computed as   *)
(* Python computes them.                                                   *)
(***************************************************************************)
EXTENDS Integers, Sequences, FiniteSets, TLC

(***************************************************************************)
(* Bounds of the exploration                                               *)
(***************************************************************************)
\* requests that change the filesystem, per run
MaxWrites == 2

\* bytes in a request body
MaxBody == 2

\* minutes the server clock advances
MaxClock == 1

(***************************************************************************)
(* Python str helpers                                                      *)
(***************************************************************************)
Drop(s, n) == SubSeq(s, n + 1, Len(s))

Take(s, n) == SubSeq(s, 1, n)

StartsWith(s, p) == Len(p) <= Len(s) /\ Take(s, Len(p)) = p

\* s.count(c)
PyCount(s, c) == Cardinality({i \in 1..Len(s) : s[i] = c})

\* index of the first c in s, 0 when there is none
PyFind(s, c) ==
  IF \E i \in 1..Len(s) : s[i] = c
  THEN CHOOSE i \in 1..Len(s) : s[i] = c /\ \A j \in 1..(i - 1) : s[j] # c
  ELSE 0

\* index of the last c in s, 0 when there is none
PyRFind(s, c) ==
  IF \E i \in 1..Len(s) : s[i] = c
  THEN CHOOSE i \in 1..Len(s) : s[i] = c /\ \A j \in (i + 1)..Len(s) : s[j] # c
  ELSE 0

\* s.split(c): every piece, empty pieces kept
RECURSIVE PySplit(_, _)
PySplit(s, c) ==
  LET i == PyFind(s, c)
  IN  IF i = 0 THEN <<s>> ELSE <<Take(s, i - 1)>> \o PySplit(Drop(s, i), c)

\* s.split(c, 1)
PySplit1(s, c) ==
  LET i == PyFind(s, c)
  IN  IF i = 0 THEN <<s>> ELSE <<Take(s, i - 1), Drop(s, i)>>

\* c.join(parts)
RECURSIVE PyJoin(_, _)
PyJoin(parts, c) ==
  IF Len(parts) = 0 THEN <<>>
  ELSE IF Len(parts) = 1 THEN parts[1]
  ELSE parts[1] \o <<c>> \o PyJoin(Tail(parts), c)

(***************************************************************************)
(* posixpath                                                               *)
(***************************************************************************)
\* os.path.join(a, b)
os_path_join(a, b) ==
  IF StartsWith(b, <<"/">>) THEN b
  ELSE IF a = <<>> \/ a[Len(a)] = "/" THEN a \o b
  ELSE a \o <<"/">> \o b

\* the component stack of posixpath.normpath
RECURSIVE NormComps(_, _, _)
NormComps(comps, acc, rooted) ==
  IF comps = <<>> THEN acc
  ELSE LET c == Head(comps)
       IN  IF c = <<>> \/ c = <<".">>
           THEN NormComps(Tail(comps), acc, rooted)
           ELSE IF c # <<".", ".">>
                   \/ (~rooted /\ acc = <<>>)
                   \/ (acc # <<>> /\ acc[Len(acc)] = <<".", ".">>)
           THEN NormComps(Tail(comps), Append(acc, c), rooted)
           ELSE IF acc # <<>>
           THEN NormComps(Tail(comps), Take(acc, Len(acc) - 1), rooted)
           ELSE NormComps(Tail(comps), acc, rooted)

\* posixpath.normpath(path)
os_path_normpath(path) ==
  IF path = <<>> THEN <<".">>
  ELSE LET slashes == IF ~StartsWith(path, <<"/">>) THEN 0
                      ELSE IF StartsWith(path, <<"/", "/">>)
                              /\ ~StartsWith(path, <<"/", "/", "/">>) THEN 2
                      ELSE 1
           comps == NormComps(PySplit(path, "/"), <<>>, slashes > 0)
           body == PyJoin(comps, "/")
           out == (IF slashes = 2 THEN <<"/", "/">>
                   ELSE IF slashes = 1 THEN <<"/">> ELSE <<>>) \o body
       IN  IF out = <<>> THEN <<".">> ELSE out

\* the working directory of the server process
Cwd == <<"/">>

\* os.path.abspath(path)
os_path_abspath(path) ==
  IF StartsWith(path, <<"/">>) THEN os_path_normpath(path)
  ELSE os_path_normpath(os_path_join(Cwd, path))

\* os.path.dirname(p)
os_path_dirname(p) ==
  LET i == PyRFind(p, "/")
      head == Take(p, i)
  IN  IF head # <<>> /\ \E j \in 1..Len(head) : head[j] # "/"
      THEN Take(head, CHOOSE k \in 1..Len(head) :
                        head[k] # "/" /\ \A j \in (k + 1)..Len(head) : head[j] = "/")
      ELSE head

(***************************************************************************)
(* State                                                                   *)
(*   settings  StorageSettings.settings, the loaded configuration          *)
(*   fs        the filesystem: absolute normalised path -> node            *)
(*   now       the server clock, in minutes                                *)
(*   req       the request handled last                                    *)
(*   resp      the outcome of that request                                 *)
(*   prev      the filesystem as it was before that request                *)
(*   writes    how many requests so far changed the filesystem             *)
(*   last      the latest successful upload, while nothing else changed    *)
(*             the filesystem after it                                     *)
(*   race      the requests that run at the same time: how far each        *)
(*             upload of one key has got, and whether the key was removed  *)
(***************************************************************************)
VARIABLES settings, fs, now, req, resp, prev, writes, last, race

vars == <<settings, fs, now, req, resp, prev, writes, last, race>>

\* a header that the request does not carry
Absent == <<"<absent>">>

(***************************************************************************)
(* StorageSettings                                                         *)
(***************************************************************************)
\* has_bucket(bucket_name)
has_bucket(cfg, bucket_name) == bucket_name \in DOMAIN cfg.buckets

\* a faulty get_credential, which looks the access key up in every bucket
get_credential_any_bucket(cfg, bucket_name, access_key_id) ==
  LET found == {c \in UNION {{cfg.buckets[b].credentials[i] :
                                 i \in 1..Len(cfg.buckets[b].credentials)} :
                              b \in DOMAIN cfg.buckets} :
                  c.access_key_id = access_key_id}
  IN  IF found = {} THEN {} ELSE {CHOOSE c \in found : TRUE}

\* get_credential(bucket_name, access_key_id): the set is empty for None
get_credential(cfg, bucket_name, access_key_id) ==
  LET creds == cfg.buckets[bucket_name].credentials
      hits == {i \in 1..Len(creds) : creds[i].access_key_id = access_key_id}
  IN  IF Cardinality(hits) = 1 THEN {creds[CHOOSE i \in hits : TRUE]} ELSE {}

\* get_secret_access_key(bucket_name, access_key_id): the set is empty for None
get_secret_access_key(cfg, bucket_name, access_key_id) ==
  {c.secret_access_key : c \in get_credential(cfg, bucket_name, access_key_id)}

\* a faulty permission_check, which lets every credential through
permission_unchecked(cfg, bucket_name, access_key_id, key) == "ok"

\* permission_check(bucket_name, access_key_id, key): "ok", or what is raised
permission_check(cfg, bucket_name, access_key_id, key) ==
  LET credential == CHOOSE c \in get_credential(cfg, bucket_name, access_key_id) : TRUE
  IN  IF key \notin DOMAIN credential.permission THEN "KeyError"
      ELSE IF ~credential.permission[key] THEN "AccessDenied"
      ELSE "ok"

(***************************************************************************)
(* Request analysis                                                        *)
(***************************************************************************)
\* get_request_access_key_id()
get_request_access_key_id(r) ==
  LET auth_string == PySplit(r.Authorization, " ")[2]
  IN  PySplit(auth_string, ":")[1]

\* whether regex pat (one '.' is any character but a newline, anything else
\* literal) matches s from position i on
RegexAt(s, i, pat) ==
  /\ Len(s) >= i - 1 + Len(pat)
  /\ \A j \in 1..Len(pat) :
       IF pat[j] = "." THEN s[i - 1 + j] # "\n" ELSE s[i - 1 + j] = pat[j]

\* re.match('(.*).{0}'.format(virtual_host), host): the lengths group 1 can have
VirtualHostGroups(cfg, host) ==
  {g \in 0..Len(host) :
     /\ \A j \in 1..g : host[j] # "\n"
     /\ RegexAt(host, g + 1, <<".">> \o cfg.app.virtual_host)}

VirtualHost == 1

Path == 2

\* get_request_information(path_string)
get_request_information(cfg, r, path_string0) ==
  LET path_string == IF PyCount(path_string0, "?") > 0
                     THEN PySplit1(path_string0, "?")[1] ELSE path_string0
      groups == VirtualHostGroups(cfg, r.Host)
  IN  IF groups # {}
      THEN \* '.*' is greedy: the longest group wins
           LET g == CHOOSE x \in groups : \A y \in groups : y <= x
           IN  [bucket_name |-> Take(r.Host, g), remote_path |-> path_string,
                request_type |-> VirtualHost]
      ELSE IF PyCount(path_string, "/") = 0
      THEN [bucket_name |-> path_string, remote_path |-> <<>>, request_type |-> Path]
      ELSE LET splited_path_string == PySplit1(path_string, "/")
           IN  [bucket_name |-> splited_path_string[1],
                remote_path |-> splited_path_string[2], request_type |-> Path]

(***************************************************************************)
(* Validation                                                              *)
(***************************************************************************)
\* validation_request_header(keys)
validation_request_header(r, keys) ==
  IF \E k \in keys : r[k] = Absent THEN "InvalidArgument" ELSE "ok"

\* validation_request_authorization()
validation_request_authorization(r) ==
  LET auth_string == PySplit(r.Authorization, " ")
  IN  IF Len(auth_string) # 2 THEN "InvalidArgument"
      ELSE IF auth_string[1] # <<"A", "W", "S">> THEN "InvalidArgument"
      ELSE IF PyCount(auth_string[2], ":") # 1 THEN "InvalidArgument"
      ELSE "ok"

\* the allowed age of a request, in minutes
SkewMinutes == 3

\* the minutes a Date header can name
DateRange == (0 - 2 * SkewMinutes)..(4 * SkewMinutes)

\* a Date header is the text of its minute
DateText(d) == <<ToString(d)>>

\* dateutil.parser.parse(text): the set is empty when the text is no date
dateutil_parse(text) == {d \in DateRange : DateText(d) = text}

\* validation_date()
validation_date(clock, r) ==
  LET parsed == dateutil_parse(r.Date)
  IN  IF parsed = {} THEN "ValueError"
      ELSE LET date == CHOOSE d \in parsed : TRUE
               diff == clock - date
           IN  IF diff > SkewMinutes THEN "InvalidArgument" ELSE "ok"

\* int(size): the set is empty when the text is no number
int_parse(text) == {n \in 0..(MaxBody + 1) : <<ToString(n)>> = text}

\* validation_filesize(size)
validation_filesize(r, size) ==
  IF int_parse(size) = {} THEN "ValueError"
  ELSE IF Len(r.data) # (CHOOSE n \in int_parse(size) : TRUE) THEN "InvalidArgument"
  ELSE "ok"

(***************************************************************************)
(* Signature                                                               *)
(***************************************************************************)
\* the characters of texts, in code order
Alphabet ==
  <<"\n", " ", "\"", "-", ".", "/", ":", "?",
    "A", "B", "C", "D", "E", "G", "H", "L", "P", "S", "T", "U", "W", "X",
    "a", "b", "c", "d", "h", "j", "k", "l", "m", "n", "p", "q", "s", "t",
    "u", "v", "w", "x", "y", "z">>
  \o [i \in 1..Cardinality(DateRange) |-> ToString(i - 1 - 2 * SkewMinutes)]

OrdOf ==
  [c \in {Alphabet[i] : i \in 1..Len(Alphabet)} |->
     CHOOSE i \in 1..Len(Alphabet) : Alphabet[i] = c]

\* ord(c)
Ord(c) == OrdOf[c]

\* str.lower() of one character
Lower(c) ==
  CASE c = "A" -> "a" [] c = "B" -> "b" [] c = "C" -> "c" [] c = "D" -> "d"
    [] c = "X" -> "x" [] OTHER -> c

\* the characters a signature is written in
B64Chars == <<"A", "B", "C", "D">>

\* the length of a written signature (a bound: 28 for a SHA-1 digest)
SigLen == 2

RECURSIVE Pow(_, _)
Pow(b, e) == IF e = 0 THEN 1 ELSE b * Pow(b, e - 1)

\* the number of digests
HashMod == Pow(Len(B64Chars), SigLen)

\* a keyed digest absorbs its text one character at a time
RECURSIVE Absorb(_, _)
Absorb(h, text) ==
  IF text = <<>> THEN h
  ELSE Absorb((h * 31 + Ord(Head(text))) % HashMod, Tail(text))

\* hmac.new(key, msg, hashlib.sha1).digest()
hmac_sha1(key, msg) == Absorb(Absorb(Absorb(7, key), <<"\n">>), msg)

\* base64.encodestring(hashed).rstrip()
base64_encodestring(hashed) ==
  [i \in 1..SigLen |->
     B64Chars[((hashed \div Pow(Len(B64Chars), SigLen - i)) % Len(B64Chars)) + 1]]

\* a < b for texts, character by character
RECURSIVE TextLess(_, _)
TextLess(a, b) ==
  IF b = <<>> THEN FALSE
  ELSE IF a = <<>> THEN TRUE
  ELSE IF Head(a) # Head(b) THEN Ord(Head(a)) < Ord(Head(b))
  ELSE TextLess(Tail(a), Tail(b))

\* sorted(items) for a list of <<name, value>> pairs
RECURSIVE Sorted(_)
Sorted(items) ==
  IF items = <<>> THEN <<>>
  ELSE LET least == CHOOSE i \in 1..Len(items) :
                      \A j \in 1..Len(items) :
                        j = i \/ items[i] = items[j]
                              \/ TextLess(items[i][1], items[j][1])
                              \/ (items[i][1] = items[j][1]
                                    /\ TextLess(items[i][2], items[j][2]))
       IN  <<items[least]>>
             \o Sorted([k \in 1..(Len(items) - 1) |->
                          IF k < least THEN items[k] ELSE items[k + 1]])

\* request.headers.get(name) among the X-Amz- headers: the first of that name
AmzGet(r, name) ==
  r.amz[CHOOSE i \in 1..Len(r.amz) :
          r.amz[i][1] = name /\ \A j \in 1..(i - 1) : r.amz[j][1] # name][2]

RECURSIVE AmzLines(_, _)
AmzLines(r, items) ==
  IF items = <<>> THEN <<>>
  ELSE LET key == Head(items)
           k == [i \in 1..Len(key[1]) |-> Lower(key[1][i])]
           v == AmzGet(r, key[1])
       IN  k \o <<":">> \o v \o <<"\n">> \o AmzLines(r, Tail(items))

\* detect_x_amz()
detect_x_amz(r) ==
  AmzLines(r, Sorted(SelectSeq(r.amz,
                     LAMBDA x : StartsWith(x[1], <<"X", "-", "A", "m", "z", "-">>))))

\* a faulty authorization_request, which resolves bucket and access key and
\* never compares the signature
authorization_lookup_only(cfg, r, bucket_name, access_key_id, raw_string) ==
  IF ~has_bucket(cfg, bucket_name) THEN "NoSuchBucket"
  ELSE IF get_secret_access_key(cfg, bucket_name, access_key_id) = {}
  THEN "InvalidAccessKeyId"
  ELSE "ok"

\* authorization_request(bucket_name, access_key_id, raw_string)
authorization_request(cfg, r, bucket_name, access_key_id, raw_string) ==
  IF ~has_bucket(cfg, bucket_name) THEN "NoSuchBucket"
  ELSE LET secret_access_key == get_secret_access_key(cfg, bucket_name, access_key_id)
       IN  IF secret_access_key = {} THEN "InvalidAccessKeyId"
           ELSE LET hashed == hmac_sha1(CHOOSE k \in secret_access_key : TRUE, raw_string)
                    calc_token == <<"A", "W", "S", " ">> \o access_key_id \o <<":">>
                                    \o base64_encodestring(hashed)
                IN  IF calc_token # r.Authorization THEN "SignatureDoesNotMatch"
                    ELSE "ok"

\* convert_local_path(bucket_name, remote_path)
convert_local_path(cfg, bucket_name, remote_path) ==
  os_path_abspath(os_path_join(cfg.buckets[bucket_name].root_path, remote_path))

(***************************************************************************)
(* The filesystem.  A node is a directory or a regular file with its       *)
(* bytes; "/" always exists; the parent of every node is a directory.      *)
(***************************************************************************)
Dir == [kind |-> "dir", data |-> <<>>]

File(bytes) == [kind |-> "file", data |-> bytes]

\* the path the kernel resolves: a leading "//" names the same root as "/"
Real(p) == IF StartsWith(p, <<"/", "/">>) THEN Tail(p) ELSE p

os_path_exists(f, p) == Real(p) \in DOMAIN f

os_path_isdir(f, p) == os_path_exists(f, p) /\ f[Real(p)].kind = "dir"

os_path_isfile(f, p) == os_path_exists(f, p) /\ f[Real(p)].kind = "file"

\* p itself and every directory above it
RECURSIVE Lineage(_)
Lineage(p) ==
  IF os_path_dirname(p) = p \/ p = <<>> THEN {p}
  ELSE {p} \cup Lineage(os_path_dirname(p))

\* whether q is p or lies below p
IsUnder(p, q) == q = p \/ StartsWith(q, IF p = <<"/">> THEN p ELSE p \o <<"/">>)

\* the nodes strictly below p
Below(f, p) == {q \in DOMAIN f : q # Real(p) /\ IsUnder(Real(p), q)}

\* os.makedirs(p): the new filesystem and "ok" or the error raised
os_makedirs(f, p) ==
  IF os_path_exists(f, p) THEN [fs |-> f, err |-> "OSError"]
  ELSE IF \E q \in Lineage(Real(p)) : os_path_isfile(f, q)
  THEN [fs |-> f, err |-> "OSError"]
  ELSE LET made == {q \in Lineage(Real(p)) : q \notin DOMAIN f}
       IN  [fs |-> [q \in DOMAIN f \cup made |-> IF q \in made THEN Dir ELSE f[q]],
            err |-> "ok"]

\* a faulty open_write, which opens an existing file without truncating it
open_write_in_place(f, p, bytes) ==
  IF os_path_isdir(f, p) \/ ~os_path_isdir(f, os_path_dirname(Real(p)))
  THEN [fs |-> f, err |-> "IOError"]
  ELSE [fs |-> [q \in DOMAIN f \cup {Real(p)} |->
                  IF q # Real(p) THEN f[q]
                  ELSE IF os_path_isfile(f, p)
                  THEN File(bytes \o Drop(f[q].data, Len(bytes)))
                  ELSE File(bytes)],
        err |-> "ok"]

\* with open(p, 'wb') as f: f.write(bytes)
open_write(f, p, bytes) ==
  IF os_path_isdir(f, p) \/ ~os_path_isdir(f, os_path_dirname(Real(p)))
  THEN [fs |-> f, err |-> "IOError"]
  ELSE [fs |-> [q \in DOMAIN f \cup {Real(p)} |->
                  IF q = Real(p) THEN File(bytes) ELSE f[q]],
        err |-> "ok"]

\* shutil.rmtree(p)
shutil_rmtree(f, p) ==
  IF ~os_path_isdir(f, p) THEN [fs |-> f, err |-> "OSError"]
  ELSE IF Real(p) = <<"/">>
  THEN [fs |-> [q \in {<<"/">>} |-> Dir], err |-> "OSError"]
  ELSE [fs |-> [q \in DOMAIN f \ ({Real(p)} \cup Below(f, p)) |-> f[q]],
        err |-> "ok"]

\* os.remove(p)
os_remove(f, p) ==
  IF ~os_path_isfile(f, p) THEN [fs |-> f, err |-> "OSError"]
  ELSE [fs |-> [q \in DOMAIN f \ {Real(p)} |-> f[q]], err |-> "ok"]

HexChars ==
  <<"0", "1", "2", "3", "4", "5", "6", "7", "8", "9", "a", "b", "c", "d", "e", "f">>

RECURSIVE Digest(_, _)
Digest(h, bytes) ==
  IF bytes = <<>> THEN h
  ELSE Digest((h * 33 + Head(bytes) + 1) % 256, Tail(bytes))

\* hashlib.md5(bytes).hexdigest()
md5_hexdigest(bytes) ==
  LET h == Digest(90, bytes)
  IN  <<HexChars[(h \div 16) + 1], HexChars[(h % 16) + 1]>>

(***************************************************************************)
(* Responses                                                               *)
(***************************************************************************)
NoListing ==
  [Name |-> <<>>, Prefix |-> <<>>, Delimiter |-> <<>>, KeyCount |-> 0 - 1,
   MaxKeys |-> <<>>, IsTruncated |-> "", Contents |-> <<>>, CommonPrefixes |-> <<>>]

\* the status_code of an error kind
StatusCode(kind) ==
  CASE kind = "InvalidArgument" -> 400
    [] kind \in {"InvalidAccessKeyId", "SignatureDoesNotMatch", "AccessDenied"} -> 403
    [] kind \in {"NoSuchBucket", "NoSuchKey"} -> 404
    [] kind = "NotImplemented" -> 501
    [] OTHER -> 500

\* what a handler hands back: the response, the filesystem it leaves, the
\* operation it entered (op), on which bucket and key, and the paths that
\* operation resolved (touched)
Outcome(kind, status, f) ==
  [kind |-> kind, status |-> status, data |-> <<>>, text |-> <<>>, etag |-> <<>>,
   listing |-> NoListing, op |-> "none", bucket |-> <<>>, key |-> <<>>,
   touched |-> {}, fs |-> f]

\* an exception leaving the handler: handle_invalid_usage, or Flask's 500
Raise(kind, f) == Outcome(kind, StatusCode(kind), f)

(***************************************************************************)
(* Listing and object operations                                           *)
(***************************************************************************)
\* request.args.get(name, default)
ArgGet(r, name, default) == IF r.args[name] = Absent THEN default ELSE r.args[name]

\* the texts of a set, least first
RECURSIVE SortTexts(_)
SortTexts(S) ==
  IF S = {} THEN <<>>
  ELSE LET least == CHOOSE x \in S : \A y \in S : y = x \/ TextLess(x, y)
       IN  <<least>> \o SortTexts(S \ {least})

\* the Contents block of one object of a listing; <<>> when open() fails
ContentsOf(cfg, f, bucket_name, origin_object) ==
  LET object == convert_local_path(cfg, bucket_name, origin_object)
  IN  IF ~os_path_isfile(f, object) THEN <<>>
      ELSE <<[Key |-> origin_object,
              ETag |-> <<"&quot;">> \o md5_hexdigest(f[Real(object)].data)
                         \o <<"&quot;">>,
              Size |-> Len(f[Real(object)].data),
              StorageClass |-> "Standard"]>>

\* the nodes a listing finds under prefix_root: os.walk for no delimiter (the
\* files at any depth), os.listdir for '/' (the children)
Found(f, delimiter_string, prefix_root) ==
  IF delimiter_string = <<>>
  THEN IF os_path_isdir(f, prefix_root)
       THEN {q \in Below(f, prefix_root) : f[q].kind = "file"} ELSE {}
  ELSE {q \in Below(f, prefix_root) : os_path_dirname(q) = Real(prefix_root)}

\* abspath[len('{}/'.format(bucket_root)):] for the nodes of `ordered`, where
\* abspath is the path os.walk and os.path.join spell for a node
RelPaths(ordered, bucket_root, prefix_root, suffix) ==
  [i \in 1..Len(ordered) |->
     Drop(Take(prefix_root, Len(prefix_root) - Len(Real(prefix_root))) \o ordered[i],
          Len(bucket_root) + 1) \o suffix]

\* the response of listing_object once objects and common_prefixs are known
ListBucketResult(f, bucket_name, delimiter_string, max_keys_string, prefix_string,
                 prefix_root, objects, common_prefixs, contents, seen) ==
  IF delimiter_string \notin {<<>>, <<"/">>}
  THEN [Raise("NotImplemented", f) EXCEPT
          !.op = "list", !.bucket = bucket_name, !.touched = {prefix_root}]
  ELSE IF delimiter_string = <<"/">> /\ ~os_path_isdir(f, prefix_root)
  THEN [Raise("OSError", f) EXCEPT
          !.op = "list", !.bucket = bucket_name, !.touched = {prefix_root}]
  ELSE IF \E i \in 1..Len(contents) : contents[i] = <<>>
  THEN [Raise("IOError", f) EXCEPT
          !.op = "list", !.bucket = bucket_name, !.touched = seen]
  ELSE [Outcome("OK", 200, f) EXCEPT
          !.op = "list", !.bucket = bucket_name, !.touched = seen,
          !.listing =
            [Name |-> bucket_name, Prefix |-> prefix_string,
             Delimiter |-> delimiter_string, KeyCount |-> Len(objects),
             MaxKeys |-> max_keys_string, IsTruncated |-> "false",
             Contents |-> [i \in 1..Len(contents) |-> contents[i][1]],
             CommonPrefixes |-> common_prefixs]]

\* listing_object, from the objects on: the Contents blocks
ListObjects(cfg, f, bucket_name, delimiter_string, max_keys_string, prefix_string,
            prefix_root, found, objects, common_prefixs) ==
  ListBucketResult(f, bucket_name, delimiter_string, max_keys_string, prefix_string,
    prefix_root, objects, common_prefixs,
    [i \in 1..Len(objects) |-> ContentsOf(cfg, f, bucket_name, objects[i])],
    {prefix_root} \cup found
      \cup {convert_local_path(cfg, bucket_name, objects[i]) : i \in 1..Len(objects)})

\* listing_object, from the enumeration on
ListFound(cfg, f, bucket_name, delimiter_string, max_keys_string, prefix_string,
          bucket_root, prefix_root, found) ==
  ListObjects(cfg, f, bucket_name, delimiter_string, max_keys_string, prefix_string,
    prefix_root, found,
    RelPaths(SortTexts({q \in found : f[q].kind = "file"}),
             bucket_root, prefix_root, <<>>),
    IF delimiter_string = <<>> THEN <<>>
    ELSE RelPaths(SortTexts({q \in found : f[q].kind = "dir"}),
                  bucket_root, prefix_root, <<"/">>))

\* listing_object, from the two roots on
ListUnder(cfg, f, bucket_name, delimiter_string, max_keys_string, prefix_string,
          bucket_root, prefix_root) ==
  ListFound(cfg, f, bucket_name, delimiter_string, max_keys_string, prefix_string,
            bucket_root, prefix_root, Found(f, delimiter_string, prefix_root))

\* a faulty listing_object, which answers no more keys than max-keys asks for
listing_object_capped(cfg, f, r, bucket_name) ==
  LET out == ListUnder(cfg, f, bucket_name,
                       ArgGet(r, "delimiter", <<>>),
                       ArgGet(r, "maxkeys", <<"1", "0", "0", "0">>),
                       ArgGet(r, "prefix", <<>>),
                       convert_local_path(cfg, bucket_name, <<>>),
                       convert_local_path(cfg, bucket_name, ArgGet(r, "prefix", <<>>)))
      asked == int_parse(ArgGet(r, "maxkeys", <<"1", "0", "0", "0">>))
      cap == CHOOSE n \in asked : TRUE
  IN  IF out.kind # "OK" \/ asked = {} \/ Len(out.listing.Contents) <= cap THEN out
      ELSE [out EXCEPT !.listing.Contents = Take(@, cap),
                       !.listing.KeyCount = cap,
                       !.listing.IsTruncated = "true"]

\* listing_object(bucket_name)
listing_object(cfg, f, r, bucket_name) ==
  ListUnder(cfg, f, bucket_name,
            ArgGet(r, "delimiter", <<>>),
            ArgGet(r, "maxkeys", <<"1", "0", "0", "0">>),
            ArgGet(r, "prefix", <<>>),
            convert_local_path(cfg, bucket_name, <<>>),
            convert_local_path(cfg, bucket_name, ArgGet(r, "prefix", <<>>)))

\* a faulty return_object, which opens the file with mode 'w+b': the file is
\* cut to no bytes before it is read
return_object_open_for_write(f, bucket_name, remote_path, local_path) ==
  LET entered == [Outcome("OK", 200, f) EXCEPT
                    !.op = "download", !.bucket = bucket_name, !.key = remote_path,
                    !.touched = {local_path}]
  IN  IF ~os_path_exists(f, local_path)
      THEN [entered EXCEPT !.kind = "NoSuchKey", !.status = StatusCode("NoSuchKey")]
      ELSE IF ~os_path_isfile(f, local_path)
      THEN [entered EXCEPT !.kind = "InvalidArgument",
                           !.status = StatusCode("InvalidArgument")]
      ELSE [entered EXCEPT !.fs = open_write(f, local_path, <<>>).fs]

\* return_object(local_path)
return_object(f, bucket_name, remote_path, local_path) ==
  LET entered == [Outcome("OK", 200, f) EXCEPT
                    !.op = "download", !.bucket = bucket_name, !.key = remote_path,
                    !.touched = {local_path}]
  IN  IF ~os_path_exists(f, local_path)
      THEN [entered EXCEPT !.kind = "NoSuchKey", !.status = StatusCode("NoSuchKey")]
      ELSE IF ~os_path_isfile(f, local_path)
      THEN [entered EXCEPT !.kind = "InvalidArgument",
                           !.status = StatusCode("InvalidArgument")]
      ELSE [entered EXCEPT !.data = f[Real(local_path)].data]

\* fileupload(bucket_name, remote_path)
fileupload(cfg, f, r, bucket_name, remote_path) ==
  LET local_path == convert_local_path(cfg, bucket_name, remote_path)
      dir_path == os_path_dirname(local_path)
      made == os_makedirs(f, dir_path)
      written == open_write(made.fs, local_path, r.data)
      entered == [Outcome("OK", 200, written.fs) EXCEPT
                    !.op = "upload", !.bucket = bucket_name, !.key = remote_path,
                    !.touched = {local_path} \cup (DOMAIN made.fs \ DOMAIN f)]
  IN  IF written.err # "ok"
      THEN [entered EXCEPT !.kind = written.err, !.status = StatusCode(written.err)]
      ELSE [entered EXCEPT
              !.text = <<"O", "K">>,
              !.etag = <<"\"">> \o md5_hexdigest(written.fs[Real(local_path)].data)
                         \o <<"\"">>]

\* a faulty createdirectory, which lets the OSError of os.makedirs through
createdirectory_strict(cfg, f, bucket_name, remote_path) ==
  LET local_path == convert_local_path(cfg, bucket_name, remote_path)
      made == os_makedirs(f, local_path)
  IN  [Outcome(IF made.err = "ok" THEN "OK" ELSE made.err,
               IF made.err = "ok" THEN 200 ELSE 500, made.fs) EXCEPT
         !.op = "mkdir", !.bucket = bucket_name, !.key = remote_path,
         !.text = IF made.err = "ok" THEN <<"O", "K">> ELSE <<>>,
         !.touched = {local_path} \cup (DOMAIN made.fs \ DOMAIN f)]

\* createdirectory(bucket_name, remote_path)
createdirectory(cfg, f, bucket_name, remote_path) ==
  LET local_path == convert_local_path(cfg, bucket_name, remote_path)
      made == os_makedirs(f, local_path)
  IN  [Outcome("OK", 200, made.fs) EXCEPT
         !.op = "mkdir", !.bucket = bucket_name, !.key = remote_path,
         !.text = <<"O", "K">>,
         !.touched = {local_path} \cup (DOMAIN made.fs \ DOMAIN f)]

(***************************************************************************)
(* Handlers.  Each is the whole route function: it returns the response    *)
(* together with the filesystem the request leaves behind.                 *)
(***************************************************************************)
\* the three checks every handler starts with: "ok", or the first error
Preamble(clock, r, keys) ==
  LET v1 == validation_request_header(r, keys)
  IN  IF v1 # "ok" THEN v1
      ELSE LET v2 == validation_request_authorization(r)
           IN  IF v2 # "ok" THEN v2 ELSE validation_date(clock, r)

\* request.headers.get(name, '')
HeaderOrEmpty(r, name) == IF r[name] = Absent THEN <<>> ELSE r[name]

\* @app.route("/", methods=['HEAD'])
head_root(cfg, f, clock, r) ==
  LET v == Preamble(clock, r, {"Host", "Date", "Authorization"})
      info == get_request_information(cfg, r, <<>>)
      access_key_id == get_request_access_key_id(r)
      auth == authorization_request(cfg, r, info.bucket_name, access_key_id,
                <<"H", "E", "A", "D", "\n", "\n", "\n">> \o r.Date
                  \o <<"\n", "/">> \o info.bucket_name \o <<"/">>)
  IN  IF v # "ok" THEN Raise(v, f)
      ELSE IF info.request_type # VirtualHost THEN Raise("NotImplemented", f)
      ELSE IF auth # "ok" THEN Raise(auth, f)
      ELSE Outcome("OK", 200, f)

\* @app.route("/<path:path_string>", methods=['HEAD'])
head_object(cfg, f, clock, r) ==
  LET v == Preamble(clock, r, {"Host", "Date", "Authorization"})
      info == get_request_information(cfg, r, r.path)
      access_key_id == get_request_access_key_id(r)
      auth == authorization_request(cfg, r, info.bucket_name, access_key_id,
                <<"H", "E", "A", "D", "\n", "\n", "\n">> \o r.Date
                  \o <<"\n", "/">> \o info.bucket_name \o <<"/">> \o info.remote_path)
      local_path == convert_local_path(cfg, info.bucket_name, info.remote_path)
      entered == [Outcome("OK", 200, f) EXCEPT
                    !.op = "head", !.bucket = info.bucket_name,
                    !.key = info.remote_path,
                    !.touched = {local_path}]
  IN  IF v # "ok" THEN Raise(v, f)
      ELSE IF auth # "ok" THEN Raise(auth, f)
      ELSE IF ~os_path_exists(f, local_path) THEN [entered EXCEPT !.status = 404]
      ELSE entered

\* @app.route("/", methods=['GET'])
get_root(cfg, f, clock, r) ==
  LET v == Preamble(clock, r, {"Host", "Date", "Authorization"})
      info == get_request_information(cfg, r, <<>>)
      access_key_id == get_request_access_key_id(r)
      auth == authorization_request(cfg, r, info.bucket_name, access_key_id,
                <<"G", "E", "T", "\n", "\n", "\n">> \o r.Date \o <<"\n">>
                  \o detect_x_amz(r) \o <<"/">> \o info.bucket_name \o <<"/">>)
      perm == permission_check(cfg, info.bucket_name, access_key_id, "list")
  IN  IF v # "ok" THEN Raise(v, f)
      ELSE IF info.request_type # VirtualHost THEN Raise("NotImplemented", f)
      ELSE IF auth # "ok" THEN Raise(auth, f)
      ELSE IF perm # "ok" THEN Raise(perm, f)
      ELSE listing_object(cfg, f, r, info.bucket_name)

\* a faulty get_object, which checks the permission of the named credential
\* before it verifies the signature
get_object_permission_first(cfg, f, clock, r) ==
  LET v == Preamble(clock, r, {"Host", "Date", "Authorization"})
      info == get_request_information(cfg, r, r.path)
      access_key_id == get_request_access_key_id(r)
      auth == authorization_request(cfg, r, info.bucket_name, access_key_id,
                <<"G", "E", "T", "\n", "\n", "\n">> \o r.Date \o <<"\n">>
                  \o detect_x_amz(r) \o <<"/">> \o info.bucket_name \o <<"/">>
                  \o info.remote_path)
      key == IF info.remote_path = <<>> THEN "list" ELSE "download"
      perm == IF has_bucket(cfg, info.bucket_name)
                 /\ get_credential(cfg, info.bucket_name, access_key_id) # {}
              THEN permission_check(cfg, info.bucket_name, access_key_id, key)
              ELSE "ok"
      local_path == convert_local_path(cfg, info.bucket_name, info.remote_path)
  IN  IF v # "ok" THEN Raise(v, f)
      ELSE IF perm # "ok" THEN Raise(perm, f)
      ELSE IF auth # "ok" THEN Raise(auth, f)
      ELSE IF info.remote_path = <<>>
      THEN listing_object(cfg, f, r, info.bucket_name)
      ELSE return_object(f, info.bucket_name, info.remote_path, local_path)

\* a faulty get_object, which looks the key up before it checks the permission
get_object_lookup_first(cfg, f, clock, r) ==
  LET v == Preamble(clock, r, {"Host", "Date", "Authorization"})
      info == get_request_information(cfg, r, r.path)
      access_key_id == get_request_access_key_id(r)
      auth == authorization_request(cfg, r, info.bucket_name, access_key_id,
                <<"G", "E", "T", "\n", "\n", "\n">> \o r.Date \o <<"\n">>
                  \o detect_x_amz(r) \o <<"/">> \o info.bucket_name \o <<"/">>
                  \o info.remote_path)
      key == IF info.remote_path = <<>> THEN "list" ELSE "download"
      perm == permission_check(cfg, info.bucket_name, access_key_id, key)
      local_path == convert_local_path(cfg, info.bucket_name, info.remote_path)
  IN  IF v # "ok" THEN Raise(v, f)
      ELSE IF auth # "ok" THEN Raise(auth, f)
      ELSE IF info.remote_path # <<>> /\ ~os_path_exists(f, local_path)
      THEN return_object(f, info.bucket_name, info.remote_path, local_path)
      ELSE IF perm # "ok" THEN Raise(perm, f)
      ELSE IF info.remote_path = <<>>
      THEN listing_object(cfg, f, r, info.bucket_name)
      ELSE return_object(f, info.bucket_name, info.remote_path, local_path)

\* @app.route("/<path:path_string>", methods=['GET'])
get_object(cfg, f, clock, r) ==
  LET v == Preamble(clock, r, {"Host", "Date", "Authorization"})
      info == get_request_information(cfg, r, r.path)
      access_key_id == get_request_access_key_id(r)
      auth == authorization_request(cfg, r, info.bucket_name, access_key_id,
                <<"G", "E", "T", "\n", "\n", "\n">> \o r.Date \o <<"\n">>
                  \o detect_x_amz(r) \o <<"/">> \o info.bucket_name \o <<"/">>
                  \o info.remote_path)
      key == IF info.remote_path = <<>> THEN "list" ELSE "download"
      perm == permission_check(cfg, info.bucket_name, access_key_id, key)
      local_path == convert_local_path(cfg, info.bucket_name, info.remote_path)
  IN  IF v # "ok" THEN Raise(v, f)
      ELSE IF auth # "ok" THEN Raise(auth, f)
      ELSE IF perm # "ok" THEN Raise(perm, f)
      ELSE IF info.remote_path = <<>>
      THEN listing_object(cfg, f, r, info.bucket_name)
      ELSE return_object(f, info.bucket_name, info.remote_path, local_path)

\* @app.route("/<path:path_string>", methods=['PUT'])
put_object(cfg, f, clock, r) ==
  LET v == Preamble(clock, r,
             {"Host", "Date", "ContentLength", "ContentType", "Authorization"})
      size == validation_filesize(r, r.ContentLength)
      info == get_request_information(cfg, r, r.path)
      access_key_id == get_request_access_key_id(r)
      auth == authorization_request(cfg, r, info.bucket_name, access_key_id,
                <<"P", "U", "T", "\n">> \o HeaderOrEmpty(r, "ContentMd5") \o <<"\n">>
                  \o HeaderOrEmpty(r, "ContentType") \o <<"\n">> \o r.Date
                  \o <<"\n">> \o detect_x_amz(r) \o <<"/">> \o info.bucket_name
                  \o <<"/">> \o info.remote_path)
      key == IF info.remote_path[Len(info.remote_path)] = "/" THEN "mkdir" ELSE "upload"
      perm == permission_check(cfg, info.bucket_name, access_key_id, key)
  IN  IF v # "ok" THEN Raise(v, f)
      ELSE IF size # "ok" THEN Raise(size, f)
      ELSE IF auth # "ok" THEN Raise(auth, f)
      ELSE IF info.remote_path = <<>> THEN Raise("IndexError", f)
      ELSE IF perm # "ok" THEN Raise(perm, f)
      ELSE IF key = "mkdir"
      THEN createdirectory(cfg, f, info.bucket_name, info.remote_path)
      ELSE fileupload(cfg, f, r, info.bucket_name, info.remote_path)

\* a faulty delete_object, which removes the path before it checks the
\* permission
delete_object_remove_first(cfg, f, clock, r) ==
  LET v == Preamble(clock, r, {"Host", "Date", "Authorization"})
      info == get_request_information(cfg, r, r.path)
      access_key_id == get_request_access_key_id(r)
      auth == authorization_request(cfg, r, info.bucket_name, access_key_id,
                <<"D", "E", "L", "E", "T", "E", "\n", "\n", "\n">> \o r.Date
                  \o <<"\n", "/">> \o info.bucket_name \o <<"/">> \o info.remote_path)
      perm == permission_check(cfg, info.bucket_name, access_key_id, "delete")
      local_path == convert_local_path(cfg, info.bucket_name, info.remote_path)
      removed == IF info.remote_path[Len(info.remote_path)] = "/"
                 THEN shutil_rmtree(f, local_path) ELSE os_remove(f, local_path)
      entered == [Outcome("OK", 204, removed.fs) EXCEPT
                    !.op = "delete", !.bucket = info.bucket_name,
                    !.key = info.remote_path,
                    !.touched = {local_path} \cup (DOMAIN f \ DOMAIN removed.fs)]
  IN  IF v # "ok" THEN Raise(v, f)
      ELSE IF auth # "ok" THEN Raise(auth, f)
      ELSE IF ~os_path_exists(f, local_path)
      THEN [Raise("NoSuchKey", f) EXCEPT
              !.op = "delete", !.bucket = info.bucket_name,
              !.key = info.remote_path, !.touched = {local_path}]
      ELSE IF info.remote_path = <<>>
      THEN [Raise("IndexError", f) EXCEPT
              !.op = "delete", !.bucket = info.bucket_name,
              !.key = info.remote_path, !.touched = {local_path}]
      ELSE IF perm # "ok" THEN Raise(perm, removed.fs)
      ELSE IF removed.err # "ok"
      THEN [entered EXCEPT !.kind = removed.err, !.status = StatusCode(removed.err)]
      ELSE entered

\* @app.route("/<path:path_string>", methods=['DELETE'])
delete_object(cfg, f, clock, r) ==
  LET v == Preamble(clock, r, {"Host", "Date", "Authorization"})
      info == get_request_information(cfg, r, r.path)
      access_key_id == get_request_access_key_id(r)
      auth == authorization_request(cfg, r, info.bucket_name, access_key_id,
                <<"D", "E", "L", "E", "T", "E", "\n", "\n", "\n">> \o r.Date
                  \o <<"\n", "/">> \o info.bucket_name \o <<"/">> \o info.remote_path)
      perm == permission_check(cfg, info.bucket_name, access_key_id, "delete")
      local_path == convert_local_path(cfg, info.bucket_name, info.remote_path)
      removed == IF info.remote_path[Len(info.remote_path)] = "/"
                 THEN shutil_rmtree(f, local_path) ELSE os_remove(f, local_path)
      entered == [Outcome("OK", 204, removed.fs) EXCEPT
                    !.op = "delete", !.bucket = info.bucket_name,
                    !.key = info.remote_path,
                    !.touched = {local_path} \cup (DOMAIN f \ DOMAIN removed.fs)]
  IN  IF v # "ok" THEN Raise(v, f)
      ELSE IF auth # "ok" THEN Raise(auth, f)
      ELSE IF perm # "ok" THEN Raise(perm, f)
      ELSE IF ~os_path_exists(f, local_path)
      THEN [Raise("NoSuchKey", f) EXCEPT
              !.op = "delete", !.bucket = info.bucket_name,
              !.key = info.remote_path, !.touched = {local_path}]
      ELSE IF info.remote_path = <<>>
      THEN [Raise("IndexError", f) EXCEPT
              !.op = "delete", !.bucket = info.bucket_name,
              !.key = info.remote_path, !.touched = {local_path}]
      ELSE IF removed.err # "ok"
      THEN [entered EXCEPT !.kind = removed.err, !.status = StatusCode(removed.err)]
      ELSE entered

(***************************************************************************)
(* The configuration the server is started with (settings.yaml)            *)
(***************************************************************************)
Actions == {"list", "download", "upload", "mkdir", "delete"}

\* a permission map granting everything but the actions in `off`
AllBut(off) == [a \in Actions |-> a \notin off]

\* a permission map with no entry at all for action a
Without(a) == [x \in Actions \ {a} |-> TRUE]

Credential(id, secret, permission) ==
  [access_key_id |-> id, secret_access_key |-> secret, permission |-> permission]

Settings ==
  [app |-> [virtual_host |-> <<"v", ".", "h">>],
   buckets |->
     (<<"b">> :> [root_path |-> <<"/", "b">>,
                  credentials |->
                    <<Credential(<<"k">>, <<"p">>, AllBut({})),
                      Credential(<<"n">>, <<"s">>, AllBut(Actions)),
                      Credential(<<"f", "l">>, <<"t">>, AllBut({"list"})),
                      Credential(<<"f", "d">>, <<"t">>, AllBut({"download"})),
                      Credential(<<"f", "u">>, <<"t">>, AllBut({"upload"})),
                      Credential(<<"f", "m">>, <<"t">>, AllBut({"mkdir"})),
                      Credential(<<"f", "x">>, <<"t">>, AllBut({"delete"})),
                      Credential(<<"w", "l">>, <<"u">>, Without("list")),
                      Credential(<<"w", "d">>, <<"u">>, Without("download")),
                      Credential(<<"w", "u">>, <<"u">>, Without("upload")),
                      Credential(<<"w", "m">>, <<"u">>, Without("mkdir")),
                      Credential(<<"w", "x">>, <<"u">>, Without("delete"))>>])
     @@ (<<"c">> :> [root_path |-> <<"/", "c">>,
                     credentials |-> <<Credential(<<"k">>, <<"q">>, AllBut({}))>>])]

\* the tree the server starts on
InitialFs ==
  (<<"/">> :> Dir) @@ (<<"/", "b">> :> Dir) @@ (<<"/", "c">> :> Dir)
    @@ (<<"/", "b", "/", "a">> :> File(<<1, 1>>))
    @@ (<<"/", "c", "/", "x">> :> File(<<0>>))

(***************************************************************************)
(* Clients: how the requests the server receives are made                  *)
(***************************************************************************)
\* the bodies clients send: 1 0 1 0 ... cut at every length, and a lone 0
Bodies == {[i \in 1..n |-> i % 2] : n \in 0..MaxBody} \cup {<<0>>}

MethodText(m) ==
  CASE m = "HEAD" -> <<"H", "E", "A", "D">> [] m = "GET" -> <<"G", "E", "T">>
    [] m = "PUT" -> <<"P", "U", "T">> [] m = "DELETE" -> <<"D", "E", "L", "E", "T", "E">>

\* the X-Amz- headers a client sends, with the canonical text it signs for them
NoAmz == [wire |-> <<>>, canon |-> <<>>]

TwoAmz ==
  [wire |-> << <<<<"X", "-", "A", "m", "z", "-", "B">>, <<"y">>>>,
               <<<<"X", "-", "A", "m", "z", "-", "A">>, <<"z">>>> >>,
   canon |-> <<"x", "-", "a", "m", "z", "-", "a", ":", "z", "\n",
               "x", "-", "a", "m", "z", "-", "b", ":", "y", "\n">>]

\* the string a client signs: method, Content-MD5, Content-Type, Date, the
\* canonical X-Amz- headers (GET and PUT), then /bucket/key
StringToSign(m, md5, ctype, date, amz, bucket, key) ==
  MethodText(m) \o <<"\n">>
    \o (IF m = "PUT" /\ md5 # Absent THEN md5 ELSE <<>>) \o <<"\n">>
    \o (IF m = "PUT" /\ ctype # Absent THEN ctype ELSE <<>>) \o <<"\n">>
    \o date \o <<"\n">>
    \o (IF m \in {"GET", "PUT"} THEN amz.canon ELSE <<>>)
    \o <<"/">> \o bucket \o <<"/">> \o key

NoArgs == [delimiter |-> Absent, marker |-> Absent, maxkeys |-> Absent, prefix |-> Absent]

\* a well-formed request for key `key` of bucket `bucket`, dated `date`, signed
\* with `secret` in the name of `id`
Signed(m, style, bucket, key, date, id, secret, body, ctype, amz, args) ==
  [method |-> m,
   path |-> IF style = VirtualHost THEN key ELSE bucket \o <<"/">> \o key,
   Host |-> IF style = VirtualHost THEN bucket \o <<".">> \o Settings.app.virtual_host
            ELSE <<"h">>,
   Date |-> DateText(date),
   Authorization |->
     <<"A", "W", "S", " ">> \o id \o <<":">>
       \o base64_encodestring(
            hmac_sha1(secret,
                      StringToSign(m, Absent, ctype, DateText(date), amz, bucket, key))),
   ContentLength |-> IF m = "PUT" THEN <<ToString(Len(body))>> ELSE Absent,
   ContentType |-> ctype,
   ContentMd5 |-> Absent,
   amz |-> amz.wire,
   args |-> args,
   data |-> body]

\* r with character i of its signature replaced by c
Flip(r, i, c) ==
  [r EXCEPT !.Authorization[Len(r.Authorization) - SigLen + i] = c]

\* the characters a signature character is replaced by
FlipChars == {B64Chars[j] : j \in 1..Len(B64Chars)} \cup {":", " ", "/"}

\* every request that differs from r in exactly one character of the signature
Flips(r) == {Flip(r, i, c) : i \in 1..SigLen, c \in FlipChars} \ {r}

(***************************************************************************)
(* Workloads                                                               *)
(***************************************************************************)
\* the keys clients of bucket b ask for
Keys ==
  {<<"a">>, <<"a", "/">>, <<"a", "/", "x">>, <<"d", "/">>, <<"d", "/", "x">>,
   <<".", ".", "/", "x">>, <<".", ".", "/", "c", "/", "x">>,
   <<"d", "/", ".", ".", "/">>}

\* the keys that failing requests ask for
FewKeys == {<<"a">>, <<"d", "/">>, <<"y">>, <<".", ".", "/", "x">>}

CType == <<"t">>

\* the bodies a PUT of key `key` carries
BodiesFor(key) == IF key # <<>> /\ key[Len(key)] = "/" THEN {<<>>} ELSE Bodies

\* object requests of method m on bucket b by credential id, dated date
ObjectRequests(m, keys, date, id, secret) ==
  IF m = "PUT"
  THEN UNION {{Signed(m, VirtualHost, <<"b">>, key, date, id, secret, body, CType,
                      NoAmz, NoArgs) : body \in BodiesFor(key)} : key \in keys}
  ELSE {Signed(m, VirtualHost, <<"b">>, key, date, id, secret, <<>>, Absent,
               NoAmz, NoArgs) : key \in keys}

\* listings of bucket b
ListRequests(date) ==
  {Signed("GET", VirtualHost, <<"b">>, <<>>, date, <<"k">>, <<"p">>, <<>>, Absent, NoAmz,
          [delimiter |-> d, marker |-> Absent, maxkeys |-> mk, prefix |-> p]) :
     d \in {Absent, <<"/">>, <<"x">>},
     mk \in {Absent, <<"1">>},
     p \in {Absent, <<"d", "/">>, <<"a">>, <<".", ".", "/", "c">>}}

\* path-style requests: the bucket is the first segment of the path
PathStyleRequests(m, date) ==
  {Signed(m, Path, <<"b">>, key, date, <<"k">>, <<"p">>,
          IF m = "PUT" THEN <<1>> ELSE <<>>, IF m = "PUT" THEN CType ELSE Absent,
          NoAmz, NoArgs) :
     key \in {<<>>, <<"a">>, <<"/", "c", "/", "x">>}}

\* the filesystem workload: what clients send at time `clock` with method m
FsRequests(clock, m) ==
  LET granted == ObjectRequests(m, Keys, clock, <<"k">>, <<"p">>)
      denied == ObjectRequests(m, FewKeys, clock, <<"n">>, <<"s">>)
      stale == ObjectRequests(m, FewKeys, clock - SkewMinutes - 1, <<"k">>, <<"p">>)
      forged == {Flip(r, 1, "/") :
                   r \in ObjectRequests(m, FewKeys, clock, <<"k">>, <<"p">>)}
      short == IF m # "PUT" THEN {}
               ELSE {[r EXCEPT !.ContentLength = <<ToString(Len(r.data) + 1)>>] :
                       r \in ObjectRequests(m, FewKeys, clock, <<"k">>, <<"p">>)}
      roots == IF m \in {"GET", "HEAD"}
               THEN {Signed(m, VirtualHost, <<"b">>, <<>>, clock, id, <<"p">>, <<>>,
                            Absent, NoAmz, NoArgs) : id \in {<<"k">>, <<"n">>}}
               ELSE {}
  IN  granted \cup denied \cup stale \cup forged \cup short \cup roots
        \cup (IF m = "GET" THEN ListRequests(clock) ELSE {})
        \cup PathStyleRequests(m, clock)

\* the operations the authentication workload probes with method m
ProbeKeys(m) ==
  CASE m = "PUT" -> {<<"a">>, <<"d", "/">>}
    [] m = "DELETE" -> {<<"a">>}
    [] OTHER -> {<<>>, <<"a">>}

\* one probe: a well-formed request of method m
Probe(m, bucket, key, date, id, secret, amz) ==
  Signed(m, VirtualHost, bucket, key, date, id, secret,
         IF m = "PUT" /\ key = <<"a">> THEN <<1>> ELSE <<>>,
         IF m = "PUT" THEN CType ELSE Absent, amz, NoArgs)

\* the authentication workload: what clients send at time `clock` with method m
AuthRequests(clock, m) ==
  LET creds == Settings.buckets[<<"b">>].credentials
      \* every credential of bucket b, each signing with its own secret
      holders == {Probe(m, <<"b">>, key, clock, creds[i].access_key_id,
                        creds[i].secret_access_key, NoAmz) :
                    key \in ProbeKeys(m), i \in 1..Len(creds)}
      \* known and unknown buckets and key ids, signed with the secret of k
      named == {Probe(m, bucket, key, clock, id, <<"p">>, NoAmz) :
                  key \in ProbeKeys(m), bucket \in {<<"b">>, <<"z">>},
                  id \in {<<"k">>, <<"q">>}}
      other == {Probe(m, <<"c">>, key, clock, id, <<"p">>, NoAmz) :
                  key \in ProbeKeys(m), id \in {<<"k">>, <<"n">>}}
      \* early and late dates
      dated == {Probe(m, <<"b">>, key, clock + d, <<"k">>, <<"p">>, NoAmz) :
                  key \in ProbeKeys(m),
                  d \in {0 - SkewMinutes - 1, 0 - SkewMinutes, SkewMinutes,
                          SkewMinutes + 1}}
      signed == {Probe(m, <<"b">>, key, clock, <<"k">>, <<"p">>, TwoAmz) :
                   key \in ProbeKeys(m)}
      good == {Probe(m, <<"b">>, key, clock, <<"k">>, <<"p">>, NoAmz) :
                 key \in ProbeKeys(m)}
      broken == UNION {{[r EXCEPT !.Authorization = Absent],
                        [r EXCEPT !.Date = Absent],
                        [r EXCEPT !.Date = <<"x">>],
                        [r EXCEPT !.Host = Absent],
                        [r EXCEPT !.Authorization[3] = "X"],
                        [r EXCEPT !.ContentType = Absent],
                        [r EXCEPT !.ContentLength = <<"x">>]} : r \in good}
  IN  holders \cup named \cup other \cup dated \cup signed \cup broken
        \cup UNION {Flips(r) : r \in named \cup signed}
        \cup {Flip(r, 1, "/") : r \in dated \cup holders}

\* the Host headers clients send: the bucket before the virtual-host suffix,
\* the same with the separator or a dot of the suffix replaced or with a
\* character after the suffix, and hosts without the suffix
Hosts ==
  {<<"b", ".", "v", ".", "h">>, <<"b", "x", "v", ".", "h">>,
   <<"b", ".", "v", "x", "h">>, <<"b", ".", "v", ".", "h", "x">>,
   <<"v", ".", "h">>, <<"h">>}

\* the addressing workload: what clients send at time `clock` with method m,
\* in either style and under every Host
HostRequests(clock, m) ==
  LET good == {Probe(m, <<"b">>, key, clock, <<"k">>, <<"p">>, NoAmz) :
                 key \in ProbeKeys(m)}
  IN  {[r EXCEPT !.Host = h] : r \in good \cup PathStyleRequests(m, clock), h \in Hosts}

(***************************************************************************)
(* The server                                                              *)
(***************************************************************************)
NoRequest ==
  [method |-> "", path |-> <<>>, Host |-> Absent, Date |-> Absent,
   Authorization |-> Absent, ContentLength |-> Absent, ContentType |-> Absent,
   ContentMd5 |-> Absent, amz |-> <<>>, args |-> NoArgs, data |-> <<>>]

\* the response part of an outcome, with the clock it was computed at
Response(out, clock) ==
  [kind |-> out.kind, status |-> out.status, data |-> out.data, text |-> out.text,
   etag |-> out.etag, listing |-> out.listing, op |-> out.op, bucket |-> out.bucket,
   key |-> out.key, touched |-> out.touched, at |-> clock]

\* no upload to remember
NoUpload == [bucket |-> <<>>, key |-> <<>>, data |-> <<>>, etag |-> <<>>]

\* the uploads that run at the same time
Uploaders == {"u1", "u2"}

\* no request in progress: every upload yet to come, the key never removed.
\* `handle` is the file an upload has open, named by the number of removals
\* of the key before it was opened, and `links` counts those removals
NoRace ==
  [pc |-> [u \in Uploaders |-> "idle"], body |-> [u \in Uploaders |-> <<>>],
   handle |-> [u \in Uploaders |-> 0], etag |-> [u \in Uploaders |-> <<>>],
   links |-> 0, remover |-> "idle"]

\* no response: the server is waiting for a request
NoResponse == Response(Outcome("", 0, <<>>), 0)

Init ==
  /\ settings = Settings
  /\ fs = InitialFs
  /\ now = 0
  /\ req = NoRequest
  /\ resp = NoResponse
  /\ prev = InitialFs
  /\ writes = 0
  /\ last = NoUpload
  /\ race = NoRace

\* the server, which handles one request at a time, runs the handler of r to
\* its end: out is what the handler returns and leaves on disk
Serve(r, out) ==
  /\ out.fs # fs => writes < MaxWrites
  /\ fs' = out.fs
  /\ prev' = fs
  /\ req' = r
  /\ resp' = Response(out, now)
  /\ writes' = IF out.fs # fs THEN writes + 1 ELSE writes
  /\ last' = IF out.op = "upload" /\ out.kind = "OK"
             THEN [bucket |-> out.bucket, key |-> out.key, data |-> r.data,
                   etag |-> out.etag]
             ELSE IF out.fs # fs THEN NoUpload ELSE last
  /\ UNCHANGED <<settings, now, race>>

HeadRoot(W(_, _)) ==
  /\ req = NoRequest
  /\ \E r \in W(now, "HEAD") :
       r.path = <<>> /\ Serve(r, head_root(settings, fs, now, r))

HeadObject(W(_, _)) ==
  /\ req = NoRequest
  /\ \E r \in W(now, "HEAD") :
       r.path # <<>> /\ Serve(r, head_object(settings, fs, now, r))

GetRoot(W(_, _)) ==
  /\ req = NoRequest
  /\ \E r \in W(now, "GET") :
       r.path = <<>> /\ Serve(r, get_root(settings, fs, now, r))

GetObject(W(_, _)) ==
  /\ req = NoRequest
  /\ \E r \in W(now, "GET") :
       r.path # <<>> /\ Serve(r, get_object(settings, fs, now, r))

PutObject(W(_, _)) ==
  /\ req = NoRequest
  /\ \E r \in W(now, "PUT") :
       r.path # <<>> /\ Serve(r, put_object(settings, fs, now, r))

DeleteObject(W(_, _)) ==
  /\ req = NoRequest
  /\ \E r \in W(now, "DELETE") :
       r.path # <<>> /\ Serve(r, delete_object(settings, fs, now, r))

\* the response goes out and the server waits for the next request
Respond ==
  /\ req # NoRequest
  /\ req' = NoRequest
  /\ resp' = NoResponse
  /\ prev' = fs
  /\ UNCHANGED <<settings, fs, now, writes, last, race>>

\* a minute passes
Tick ==
  /\ req = NoRequest
  /\ now < MaxClock
  /\ now' = now + 1
  /\ UNCHANGED <<settings, fs, req, resp, prev, writes, last, race>>

Next ==
  \/ HeadRoot(FsRequests)
  \/ HeadObject(FsRequests)
  \/ GetRoot(FsRequests)
  \/ GetObject(FsRequests)
  \/ PutObject(FsRequests)
  \/ DeleteObject(FsRequests)
  \/ Respond
  \/ Tick

Spec == Init /\ [][Next]_vars

\* the same server under the authentication workload
NextAuth ==
  \/ HeadRoot(AuthRequests)
  \/ HeadObject(AuthRequests)
  \/ GetRoot(AuthRequests)
  \/ GetObject(AuthRequests)
  \/ PutObject(AuthRequests)
  \/ DeleteObject(AuthRequests)
  \/ Respond
  \/ Tick

SpecAuth == Init /\ [][NextAuth]_vars

NextHost ==
  \/ HeadRoot(HostRequests)
  \/ HeadObject(HostRequests)
  \/ GetRoot(HostRequests)
  \/ GetObject(HostRequests)
  \/ PutObject(HostRequests)
  \/ DeleteObject(HostRequests)
  \/ Respond
  \/ Tick

SpecHost == Init /\ [][NextHost]_vars

(***************************************************************************)
(* Requests handled at the same time.  Each upload of the key goes through *)
(* fileupload one system call at a time, and nothing orders the calls of   *)
(* one upload with those of another, or with a removal of the key.         *)
(***************************************************************************)
\* the key the uploads go to
RaceKey == <<"a">>

RacePath == Real(convert_local_path(Settings, <<"b">>, RaceKey))

\* put_object up to and including os.makedirs in fileupload
UploadEnter(u) ==
  /\ race.pc[u] = "idle"
  /\ \E r \in ObjectRequests("PUT", {RaceKey}, now, <<"k">>, <<"p">>) :
       /\ put_object(settings, fs, now, r).op = "upload"
       /\ fs' = os_makedirs(fs, os_path_dirname(RacePath)).fs
       /\ race' = [race EXCEPT !.pc[u] = "entered", !.body[u] = r.data]
  /\ UNCHANGED <<settings, now, req, resp, prev, writes, last>>

\* open(local_path, 'wb'): the file is created, or cut to no bytes
UploadOpen(u) ==
  /\ race.pc[u] = "entered"
  /\ LET opened == open_write(fs, RacePath, <<>>)
     IN  IF opened.err # "ok"
         THEN fs' = fs /\ race' = [race EXCEPT !.pc[u] = "failed"]
         ELSE /\ fs' = opened.fs
              /\ race' = [race EXCEPT !.pc[u] = "opened", !.handle[u] = race.links]
  /\ UNCHANGED <<settings, now, req, resp, prev, writes, last>>

\* f.write(request.data); f.close(): the bytes go to the start of the file
\* that was opened, over what is there; a file removed since is out of sight
UploadWrite(u) ==
  /\ race.pc[u] = "opened"
  /\ fs' = IF race.handle[u] = race.links /\ os_path_isfile(fs, RacePath)
           THEN [fs EXCEPT ![RacePath] =
                   File(race.body[u] \o Drop(fs[RacePath].data, Len(race.body[u])))]
           ELSE fs
  /\ race' = [race EXCEPT !.pc[u] = "written"]
  /\ UNCHANGED <<settings, now, req, resp, prev, writes, last>>

\* open(local_path, 'rb'); hashlib.md5(f.read()).hexdigest(); the response
UploadChecksum(u) ==
  /\ race.pc[u] = "written"
  /\ race' = IF os_path_isfile(fs, RacePath)
             THEN [race EXCEPT !.pc[u] = "done",
                               !.etag[u] = <<"\"">> \o md5_hexdigest(fs[RacePath].data)
                                             \o <<"\"">>]
             ELSE [race EXCEPT !.pc[u] = "failed"]
  /\ UNCHANGED <<settings, fs, now, req, resp, prev, writes, last>>

\* delete_object of the same key, once
RemoveKey ==
  /\ race.remover = "idle"
  /\ \E r \in ObjectRequests("DELETE", {RaceKey}, now, <<"k">>, <<"p">>) :
       LET out == delete_object(settings, fs, now, r)
       IN  /\ fs' = out.fs
           /\ race' = [race EXCEPT !.remover = out.kind,
                                    !.links = IF out.fs # fs THEN @ + 1 ELSE @]
  /\ UNCHANGED <<settings, now, req, resp, prev, writes, last>>

NextRace ==
  \/ \E u \in Uploaders : UploadEnter(u)
  \/ \E u \in Uploaders : UploadOpen(u)
  \/ \E u \in Uploaders : UploadWrite(u)
  \/ \E u \in Uploaders : UploadChecksum(u)
  \/ RemoveKey

SpecRace == Init /\ [][NextRace]_vars

(***************************************************************************)
(* What the properties below speak of                                      *)
(***************************************************************************)
\* a request has been handled and its response not yet sent
Served == req # NoRequest

\* the headers the handler of r requires
Required(r) ==
  IF r.method = "PUT"
  THEN {"Host", "Date", "ContentLength", "ContentType", "Authorization"}
  ELSE {"Host", "Date", "Authorization"}

\* r carries its required headers, in the form 'AWS <id>:<signature>'
WellFormed(r) ==
  /\ \A h \in Required(r) : r[h] # Absent
  /\ Len(r.Authorization) >= 4
  /\ Take(r.Authorization, 4) = <<"A", "W", "S", " ">>
  /\ PyCount(r.Authorization, " ") = 1
  /\ PyCount(r.Authorization, ":") = 1
  /\ r.method = "PUT" => r.ContentLength = <<ToString(Len(r.data))>>

\* the minute the Date header of r names
DateOf(r) == CHOOSE d \in DateRange : DateText(d) = r.Date

Dated(r) == \E d \in DateRange : DateText(d) = r.Date

\* the bucket and key r addresses
BucketOf(r) == get_request_information(settings, r, r.path).bucket_name

KeyOf(r) == get_request_information(settings, r, r.path).remote_path

\* the access-key id and the signature r carries
IdOf(r) == Take(Drop(r.Authorization, 4), PyFind(Drop(r.Authorization, 4), ":") - 1)

SignatureOf(r) == Drop(r.Authorization, 4 + Len(IdOf(r)) + 1)

\* the credentials of bucket b named id
Holders(b, id) ==
  IF b \notin DOMAIN settings.buckets THEN {}
  ELSE {c \in {settings.buckets[b].credentials[i] :
                 i \in 1..Len(settings.buckets[b].credentials)} :
          c.access_key_id = id}

\* the signature a client holding `secret` computes for r
Expected(r, secret) ==
  base64_encodestring(
    hmac_sha1(secret,
              StringToSign(r.method, r.ContentMd5, r.ContentType, r.Date,
                           IF r.amz = TwoAmz.wire THEN TwoAmz ELSE NoAmz,
                           BucketOf(r), KeyOf(r))))

\* r names a credential of its bucket and carries that credential's signature
Authentic(r) ==
  /\ Holders(BucketOf(r), IdOf(r)) # {}
  /\ \A c \in Holders(BucketOf(r), IdOf(r)) :
       SignatureOf(r) = Expected(r, c.secret_access_key)

\* a handler for r exists and goes as far as authorization_request: bucket-level
\* HEAD and GET answer NotImplemented to path-style requests before that
Verified(r) ==
  r.path = <<>> =>
    get_request_information(settings, r, r.path).request_type = VirtualHost

\* the action the Authorization Gate checks for r
ActionOf(r) ==
  CASE r.method = "GET" /\ KeyOf(r) = <<>> -> "list"
    [] r.method = "GET" /\ KeyOf(r) # <<>> -> "download"
    [] r.method = "PUT" /\ KeyOf(r) # <<>> /\ KeyOf(r)[Len(KeyOf(r))] = "/" -> "mkdir"
    [] r.method = "PUT" -> "upload"
    [] r.method = "DELETE" -> "delete"
    [] OTHER -> "none"

\* the credential r names is granted action a
Granted(r, a) ==
  \A c \in Holders(BucketOf(r), IdOf(r)) :
    a \in DOMAIN c.permission /\ c.permission[a]

\* the handler the router picks for r
Handle(cfg, f, clock, r) ==
  CASE r.method = "HEAD" /\ r.path = <<>> -> head_root(cfg, f, clock, r)
    [] r.method = "HEAD" /\ r.path # <<>> -> head_object(cfg, f, clock, r)
    [] r.method = "GET" /\ r.path = <<>> -> get_root(cfg, f, clock, r)
    [] r.method = "GET" /\ r.path # <<>> -> get_object(cfg, f, clock, r)
    [] r.method = "PUT" -> put_object(cfg, f, clock, r)
    [] r.method = "DELETE" -> delete_object(cfg, f, clock, r)

\* the root directory of the bucket the last operation worked on
RootOf(b) == settings.buckets[b].root_path

\* the request passed the checks every handler starts with
Validated(r) ==
  /\ WellFormed(r)
  /\ Dated(r)
  /\ resp.at - DateOf(r) <= SkewMinutes

(***************************************************************************)
(* The pipeline                                                            *)
(***************************************************************************)
\* C1: a listing is produced, file content is returned, or the filesystem is
\* changed (a file written, a directory created, a path removed) only by a
\* request whose headers passed validation, whose bucket is configured, whose
\* access key is a credential of that bucket, whose signature is the one that
\* credential computes, and whose credential is granted exactly the action
\* that matches the request; and the operation carried out is that action.
C1_NoStagePastFailure ==
  Served /\ (fs # prev \/ (resp.kind = "OK" /\ resp.op \in {"list", "download"})) =>
    /\ Validated(req)
    /\ Authentic(req)
    /\ ActionOf(req) # "none"
    /\ Granted(req, ActionOf(req))
    /\ resp.op = ActionOf(req)

\* a request changed the filesystem, and another one was answered a listing
C1_Witness ==
  /\ Served
  /\ writes = MaxWrites
  /\ resp.kind = "OK"
  /\ resp.op = "list"
  /\ resp.listing.KeyCount > 0

(***************************************************************************)
(* Path containment                                                        *)
(***************************************************************************)
\* C2: every path that HEAD, GET, PUT or DELETE resolves and then reads,
\* writes, creates or removes is the root path of the request's bucket or a
\* descendant of it.
C2_StaysUnderBucketRoot ==
  Served /\ resp.op # "none" =>
    \A p \in resp.touched \cup ((DOMAIN fs \ DOMAIN prev) \cup (DOMAIN prev \ DOMAIN fs)) :
      IsUnder(RootOf(resp.bucket), Real(p))

(***************************************************************************)
(* Signature verification                                                  *)
(***************************************************************************)
\* the Date header of r is within the allowed skew of the clock, on either side
WithinSkew(r) ==
  /\ Dated(r)
  /\ resp.at - DateOf(r) <= SkewMinutes
  /\ DateOf(r) - resp.at <= SkewMinutes

\* authorization_request raised no error
Accepted == resp.kind \notin {"InvalidArgument", "NoSuchBucket", "InvalidAccessKeyId",
                              "SignatureDoesNotMatch"}

\* C3: a well-formed request dated within the skew that carries the signature
\* its credential computes is accepted by the Signature Verifier; the same
\* request with one character of the signature replaced by another one fails
\* with SignatureDoesNotMatch, unless the new character is a colon or a
\* space, which validation_request_authorization answers with
\* InvalidArgument before the signature is compared.
C3_SignatureDecides ==
  Served /\ WellFormed(req) /\ WithinSkew(req) /\ Verified(req) /\ Authentic(req) =>
    /\ Accepted
    /\ \A i \in 1..SigLen :
         \A c \in FlipChars \ {SignatureOf(req)[i]} :
           Handle(settings, prev, resp.at, Flip(req, i, c)).kind =
             IF c \in {":", " "} THEN "InvalidArgument" ELSE "SignatureDoesNotMatch"

\* a correctly signed upload with X-Amz- headers went through
C3_Witness ==
  /\ Served
  /\ WellFormed(req) /\ WithinSkew(req) /\ Authentic(req)
  /\ req.method = "PUT"
  /\ req.amz # <<>>
  /\ resp.kind = "OK"
  /\ fs # prev

\* C3 as the specification states it: every replacement of one signature
\* character, whatever the new character is, fails with SignatureDoesNotMatch.
C3_EveryFlipIsSignatureMismatch ==
  Served /\ WellFormed(req) /\ WithinSkew(req) /\ Verified(req) /\ Authentic(req) =>
    /\ Accepted
    /\ \A i \in 1..SigLen :
         \A c \in FlipChars \ {SignatureOf(req)[i]} :
           Handle(settings, prev, resp.at, Flip(req, i, c)).kind = "SignatureDoesNotMatch"

(***************************************************************************)
(* The date check                                                          *)
(***************************************************************************)
\* C4: a request whose Date header is more than SkewMinutes older or more
\* than SkewMinutes newer than the clock fails with InvalidArgument, whatever
\* its signature; a date within SkewMinutes on either side is not rejected by
\* the date check.
C4_SkewRejectedOnBothSides ==
  /\ Served /\ Dated(req)
       /\ (resp.at - DateOf(req) > SkewMinutes \/ DateOf(req) - resp.at > SkewMinutes)
     => resp.kind = "InvalidArgument"
  /\ Served /\ WithinSkew(req) => validation_date(resp.at, req) = "ok"

(***************************************************************************)
(* Permissions                                                             *)
(***************************************************************************)
\* the permission maps a credential can be configured with
PermissionMaps ==
  {AllBut({}), AllBut(Actions)} \cup {AllBut({a}) : a \in Actions}
    \cup {Without(a) : a \in Actions}

\* cfg with the permission map of every credential named id replaced by perm
Repermit(cfg, id, perm) ==
  [cfg EXCEPT !.buckets =
     [b \in DOMAIN cfg.buckets |->
        [cfg.buckets[b] EXCEPT !.credentials =
           [i \in 1..Len(cfg.buckets[b].credentials) |->
              IF cfg.buckets[b].credentials[i].access_key_id = id
              THEN [cfg.buckets[b].credentials[i] EXCEPT !.permission = perm]
              ELSE cfg.buckets[b].credentials[i]]]]]

\* C5: a validated request that fails the bucket lookup, the access-key lookup
\* or the signature comparison is never answered AccessDenied, and its
\* response is the same whatever permission map the credential it names has.
C5_PermissionAfterSignature ==
  Served /\ Validated(req) /\ ~Authentic(req) =>
    /\ resp.kind # "AccessDenied"
    /\ \A perm \in PermissionMaps :
         Response(Handle(Repermit(settings, IdOf(req), perm), prev, resp.at, req),
                  resp.at) = resp

\* a forged signature in the name of a credential that lacks the permission
C5_Witness ==
  /\ Served
  /\ Validated(req)
  /\ resp.kind = "SignatureDoesNotMatch"
  /\ ActionOf(req) # "none"
  /\ \E c \in Holders(BucketOf(req), IdOf(req)) :
       ActionOf(req) \in DOMAIN c.permission /\ ~c.permission[ActionOf(req)]

\* C6: among validated requests, one that names a bucket that is not
\* configured fails with NoSuchBucket; one that names a configured bucket and
\* an access key that is no credential of it fails with InvalidAccessKeyId;
\* SignatureDoesNotMatch is answered only when bucket and access key resolved.
C6_ErrorPrecedence ==
  Served /\ Validated(req) /\ Verified(req) =>
    /\ BucketOf(req) \notin DOMAIN settings.buckets => resp.kind = "NoSuchBucket"
    /\ (BucketOf(req) \in DOMAIN settings.buckets
          /\ Holders(BucketOf(req), IdOf(req)) = {})
       => resp.kind = "InvalidAccessKeyId"
    /\ resp.kind = "SignatureDoesNotMatch" =>
         /\ BucketOf(req) \in DOMAIN settings.buckets
         /\ Holders(BucketOf(req), IdOf(req)) # {}

\* an access key of another bucket, with a signature that does not match
C6_Witness ==
  /\ Served
  /\ Validated(req)
  /\ resp.kind = "InvalidAccessKeyId"
  /\ \E b \in DOMAIN settings.buckets : Holders(b, IdOf(req)) # {}
  /\ ~Authentic(req)

\* C7: an authenticated request whose credential has no truthy entry for the
\* action of the request (the entry is false, or there is no entry) fails with
\* AccessDenied, and the action is not executed.
C7_GateFailsClosed ==
  Served /\ Validated(req) /\ Authentic(req) /\ Verified(req)
         /\ (req.method = "PUT" => KeyOf(req) # <<>>)
         /\ ActionOf(req) # "none" /\ ~Granted(req, ActionOf(req)) =>
    /\ resp.kind = "AccessDenied"
    /\ fs = prev

\* the download entry of the credential r names is there and false
DownloadRefused(r) ==
  \A c \in Holders(BucketOf(r), IdOf(r)) :
    "download" \in DOMAIN c.permission /\ ~c.permission["download"]

\* filesystems that differ from f in what there is at path p
Alternatives(f, p) ==
  {[q \in DOMAIN f \ ({Real(p)} \cup Below(f, p)) |-> f[q]],
   [q \in DOMAIN f \cup {Real(p)} |-> IF q = Real(p) THEN File(<<0>>) ELSE f[q]],
   [q \in DOMAIN f \cup {Real(p)} |-> IF q = Real(p) THEN Dir ELSE f[q]],
   InitialFs}

\* C8: a correctly signed GET of a non-empty key by a credential whose
\* download permission is false is answered AccessDenied, and the response
\* is the same on every filesystem, whether the key exists there or not.
C8_DeniedGetHidesExistence ==
  Served /\ req.method = "GET" /\ Validated(req) /\ Authentic(req)
         /\ KeyOf(req) # <<>> /\ DownloadRefused(req) =>
    /\ resp.kind = "AccessDenied"
    /\ \A g \in Alternatives(prev, convert_local_path(settings, BucketOf(req), KeyOf(req))) :
         Response(get_object(settings, g, resp.at, req), resp.at) = resp

\* a refused download of a key that exists
C8_Witness ==
  /\ Served
  /\ req.method = "GET" /\ Validated(req) /\ Authentic(req)
  /\ KeyOf(req) # <<>> /\ DownloadRefused(req)
  /\ os_path_isfile(prev, convert_local_path(settings, BucketOf(req), KeyOf(req)))
  /\ writes > 0

(***************************************************************************)
(* Effects on the filesystem                                               *)
(***************************************************************************)
\* C9: a PUT or DELETE that ends in InvalidArgument, NoSuchBucket,
\* InvalidAccessKeyId, SignatureDoesNotMatch, AccessDenied or NoSuchKey leaves
\* the whole filesystem as it was.
C9_FailureLeavesNoTrace ==
  Served /\ req.method \in {"PUT", "DELETE"}
         /\ resp.kind \in {"InvalidArgument", "NoSuchBucket", "InvalidAccessKeyId",
                           "SignatureDoesNotMatch", "AccessDenied", "NoSuchKey"} =>
    fs = prev

\* a refused removal of a file that exists
C9_Witness ==
  /\ Served
  /\ req.method = "DELETE"
  /\ resp.kind = "AccessDenied"
  /\ os_path_isfile(prev, convert_local_path(settings, BucketOf(req), KeyOf(req)))

\* hashlib.md5(bytes).hexdigest() between double quotes
QuotedChecksum(bytes) == <<"\"">> \o md5_hexdigest(bytes) \o <<"\"">>

\* the download of key `key` of bucket b, asked now by the credential k
Download(key) ==
  get_object(settings, fs, now,
             Signed("GET", VirtualHost, <<"b">>, key, now, <<"k">>, <<"p">>, <<>>,
                    Absent, NoAmz, NoArgs))

\* C10: a successful upload of bytes B to key k answers the quoted checksum
\* of B as ETag and leaves exactly B in the file of k, whatever that file
\* held before; as long as nothing else changes the filesystem, a download of
\* k returns exactly the bytes of the latest upload to k.
C10_RoundTrip ==
  /\ Served /\ resp.op = "upload" /\ resp.kind = "OK" =>
       /\ resp.etag = QuotedChecksum(req.data)
       /\ fs[Real(convert_local_path(settings, resp.bucket, resp.key))] = File(req.data)
       /\ last.key = resp.key /\ last.data = req.data
  /\ last # NoUpload =>
       /\ last.etag = QuotedChecksum(last.data)
       /\ Download(last.key).kind = "OK"
       /\ Download(last.key).data = last.data
  /\ Served /\ resp.op = "download" /\ resp.kind = "OK"
         /\ last # NoUpload /\ resp.bucket = last.bucket /\ resp.key = last.key =>
       resp.data = last.data

\* a second upload to a key, of fewer bytes than the first upload left there
C10_Witness ==
  /\ Served
  /\ resp.op = "upload" /\ resp.kind = "OK"
  /\ Real(convert_local_path(settings, resp.bucket, resp.key)) \notin DOMAIN InitialFs
  /\ os_path_isfile(prev, convert_local_path(settings, resp.bucket, resp.key))
  /\ Len(prev[Real(convert_local_path(settings, resp.bucket, resp.key))].data)
       > Len(req.data)
  /\ req.data # <<>>

(***************************************************************************)
(* Deletion                                                                *)
(***************************************************************************)
\* r is validated, authentic and granted the action it asks for
Authorized(r) ==
  /\ Validated(r)
  /\ Verified(r)
  /\ Authentic(r)
  /\ ActionOf(r) # "none"
  /\ Granted(r, ActionOf(r))

\* the path the key of r resolves to
PathOf(r) == Real(convert_local_path(settings, BucketOf(r), KeyOf(r)))

\* the key of r ends in '/'
DirectoryKey(r) == KeyOf(r) # <<>> /\ KeyOf(r)[Len(KeyOf(r))] = "/"

\* filesystem g is f without the nodes in gone, and nothing else differs
Removed(f, g, gone) ==
  /\ DOMAIN g = DOMAIN f \ gone
  /\ \A q \in DOMAIN g : g[q] = f[q]

\* what delete_object, asked r on filesystem f, has to answer and leave
DeleteEffect(r, f, out) ==
  LET p == PathOf(r)
  IN  IF p \notin DOMAIN f
      THEN out.kind = "NoSuchKey" /\ out.fs = f
      ELSE IF DirectoryKey(r) /\ f[p].kind = "dir"
      THEN /\ out.kind = "OK" /\ out.status = 204
           /\ Removed(f, out.fs, {q \in DOMAIN f : IsUnder(p, q)})
      ELSE IF ~DirectoryKey(r) /\ f[p].kind = "file"
      THEN /\ out.kind = "OK" /\ out.status = 204
           /\ Removed(f, out.fs, {p})
      ELSE out.kind = "OSError" /\ out.status = 500 /\ out.fs = f

\* C11: an authorized DELETE whose resolved path does not exist fails with
\* NoSuchKey and removes nothing; one whose key ends in '/' and resolves to a
\* directory removes that directory and everything under it, and nothing
\* else; one whose key is a terminal key and resolves to a regular file
\* removes exactly that file; one whose key ends in '/' and resolves to a
\* regular file, or whose terminal key resolves to a directory, ends in an
\* unhandled OSError (status 500) and removes nothing.  This is so on the
\* filesystem the request met and on those that differ from it at the path.
C11_DeleteEffect ==
  Served /\ req.method = "DELETE" /\ Authorized(req) /\ KeyOf(req) # <<>> =>
    /\ DeleteEffect(req, prev, [kind |-> resp.kind, status |-> resp.status, fs |-> fs])
    /\ \A g \in Alternatives(prev, PathOf(req)) :
         DeleteEffect(req, g, delete_object(settings, g, resp.at, req))

\* a directory with a file in it, uploaded before, was removed
C11_Witness ==
  /\ Served
  /\ req.method = "DELETE" /\ Authorized(req)
  /\ DirectoryKey(req)
  /\ resp.kind = "OK"
  /\ PathOf(req) \notin DOMAIN InitialFs
  /\ Below(prev, PathOf(req)) # {}
  /\ PathOf(req) \notin DOMAIN fs

\* C11 as the specification states it: after an authorized DELETE of a key
\* that ends in '/' nothing exists at or under the resolved path; an
\* authorized DELETE of a terminal key whose path exists removes exactly that
\* path; one whose path does not exist fails with NoSuchKey, nothing removed.
C11_DeleteAlwaysRemoves ==
  Served /\ req.method = "DELETE" /\ Authorized(req) /\ KeyOf(req) # <<>> =>
    /\ DirectoryKey(req) => \A q \in DOMAIN fs : ~IsUnder(PathOf(req), q)
    /\ (~DirectoryKey(req) /\ PathOf(req) \in DOMAIN prev) =>
         Removed(prev, fs, {PathOf(req)})
    /\ PathOf(req) \notin DOMAIN prev => resp.kind = "NoSuchKey" /\ fs = prev

(***************************************************************************)
(* Listing                                                                 *)
(***************************************************************************)
\* r asks for a listing: a GET with an empty key
IsListing(r) == r.method = "GET" /\ KeyOf(r) = <<>>

\* the query parameters of a listing, with their defaults
DelimiterOf(r) == ArgGet(r, "delimiter", <<>>)

PrefixOf(r) == ArgGet(r, "prefix", <<>>)

\* the directory the prefix of r resolves to
PrefixRoot(r) == Real(convert_local_path(settings, BucketOf(r), PrefixOf(r)))

\* '../' once for every directory of path `root`
RECURSIVE Ups(_)
Ups(root) ==
  IF root = <<>> \/ root = <<"/">> THEN <<>>
  ELSE <<".", ".", "/">> \o Ups(os_path_dirname(root))

\* the forward-slash path of node q relative to directory `root`
RelativeTo(root, q) ==
  IF IsUnder(root, q) THEN Drop(q, Len(root) + 1)
  ELSE Ups(root) \o Drop(q, 1)

\* the elements of a sequence
Range(seq) == {seq[i] : i \in 1..Len(seq)}

\* the nodes of kind `kind` among `nodes`, as paths relative to the bucket
\* root of r, each followed by `suffix`
Relative(r, f, nodes, kind, suffix) ==
  {RelativeTo(RootOf(BucketOf(r)), q) \o suffix : q \in {n \in nodes : f[n].kind = kind}}

\* the immediate children of directory p
Children(f, p) == {q \in DOMAIN f : q # p /\ os_path_dirname(q) = p}

\* the keys and the common prefixes the response lists
ListedKeys == {c.Key : c \in Range(resp.listing.Contents)}

ListedPrefixes == Range(resp.listing.CommonPrefixes)

\* C12: an authorized listing with delimiter '/' and a prefix that resolves
\* to a directory answers, as object keys, exactly the regular files that
\* are immediate children of that directory, each as its path relative to
\* the bucket root and each once, and, as common prefixes, exactly the
\* immediate subdirectories, each with a trailing '/'.
C12_DelimiterListsChildren ==
  Served /\ IsListing(req) /\ Authorized(req) /\ DelimiterOf(req) = <<"/">>
         /\ os_path_isdir(prev, PrefixRoot(req)) =>
    /\ resp.kind = "OK"
    /\ ListedKeys = Relative(req, prev, Children(prev, PrefixRoot(req)), "file", <<>>)
    /\ Len(resp.listing.Contents) = Cardinality(ListedKeys)
    /\ ListedPrefixes =
         Relative(req, prev, Children(prev, PrefixRoot(req)), "dir", <<"/">>)
    /\ Len(resp.listing.CommonPrefixes) = Cardinality(ListedPrefixes)

\* C13: an authorized listing with an empty delimiter answers, as object
\* keys, exactly the regular files at any depth under the directory the
\* prefix resolves to, each as its path relative to the bucket root and each
\* once, and no common prefix; it is empty when the prefix resolves to no
\* existing directory.
C13_FlatListsSubtree ==
  Served /\ IsListing(req) /\ Authorized(req) /\ DelimiterOf(req) = <<>> =>
    /\ resp.kind = "OK"
    /\ ListedKeys =
         IF os_path_isdir(prev, PrefixRoot(req))
         THEN Relative(req, prev, Below(prev, PrefixRoot(req)), "file", <<>>)
         ELSE {}
    /\ Len(resp.listing.Contents) = Cardinality(ListedKeys)
    /\ resp.listing.CommonPrefixes = <<>>

(***************************************************************************)
(* Idempotence                                                             *)
(***************************************************************************)
\* C14: an authorized PUT of a key that ends in '/' and resolves to an
\* existing directory succeeds and leaves the filesystem as it was; and the
\* same upload, sent again after it succeeded, succeeds again with the same
\* ETag and leaves the filesystem as the first upload left it.
C14_Idempotent ==
  /\ Served /\ req.method = "PUT" /\ Authorized(req) /\ DirectoryKey(req)
            /\ os_path_isdir(prev, PathOf(req)) =>
       resp.kind = "OK" /\ resp.status = 200 /\ fs = prev
  /\ Served /\ req.method = "PUT" /\ resp.op = "upload" /\ resp.kind = "OK" =>
       /\ put_object(settings, fs, resp.at, req).kind = "OK"
       /\ put_object(settings, fs, resp.at, req).etag = resp.etag
       /\ put_object(settings, fs, resp.at, req).fs = fs
  /\ Served /\ req.method = "PUT" /\ Authorized(req) /\ KeyOf(req) # <<>>
            /\ ~DirectoryKey(req) /\ os_path_isfile(prev, PathOf(req))
            /\ prev[PathOf(req)].data = req.data =>
       resp.kind = "OK" /\ resp.etag = QuotedChecksum(req.data) /\ fs = prev

\* the upload of a new key was sent a second time, with the same bytes
C14_Witness ==
  /\ Served
  /\ req.method = "PUT" /\ Authorized(req)
  /\ resp.op = "upload" /\ resp.kind = "OK"
  /\ PathOf(req) \notin DOMAIN InitialFs
  /\ os_path_isfile(prev, PathOf(req))
  /\ prev[PathOf(req)].data = req.data
  /\ req.data # <<>>
  /\ fs = prev

(***************************************************************************)
(* Uploads at the same time                                                *)
(***************************************************************************)
\* every upload has answered its success response
AllUploaded == \A u \in Uploaders : race.pc[u] = "done"

\* C15: when two authorized uploads to one key have both finished, and the
\* key was not removed meanwhile, the file holds exactly the bytes of one of
\* them, however their steps were interleaved.
C15_LastWriterWins ==
  AllUploaded /\ race.remover = "idle" =>
    /\ os_path_isfile(fs, RacePath)
    /\ \E u \in Uploaders : fs[RacePath].data = race.body[u]

\* C16: the ETag a successful upload answers is the quoted checksum of the
\* bytes that upload sent, however its steps were interleaved with those of
\* other uploads and of a removal of the key.
C16_ETagOfOwnBytes ==
  \A u \in Uploaders :
    race.pc[u] = "done" => race.etag[u] = QuotedChecksum(race.body[u])

(***************************************************************************)
(* Directory creation over what is there                                   *)
(***************************************************************************)
\* C17: after the success response of an authorized PUT whose key ends in
\* '/', the resolved path is a directory, whatever was on the filesystem
\* before, a regular file at the path or at a parent of it included.
C17_DirectoryExistsAfterwards ==
  Served /\ req.method = "PUT" /\ Authorized(req) /\ DirectoryKey(req)
         /\ resp.kind = "OK" /\ resp.status = 200 =>
    os_path_isdir(fs, PathOf(req))

(***************************************************************************)
(* Addressing style                                                        *)
(***************************************************************************)
\* the host is some bucket name, a '.', and the virtual-host suffix
NamesBucket(host) ==
  /\ Len(host) > Len(settings.app.virtual_host)
  /\ host = Take(host, Len(host) - Len(settings.app.virtual_host) - 1)
              \o <<".">> \o settings.app.virtual_host

\* the first segment of a path
FirstSegment(path) ==
  IF PyCount(path, "/") = 0 THEN path ELSE PySplit1(path, "/")[1]

\* C18: a request is classified VirtualHost, with bucket b, exactly when its
\* Host header is b, a '.', and the configured suffix; under any other Host
\* (separator or a dot of the suffix replaced, characters after the suffix)
\* it is classified Path, with the bucket taken from the first path segment.
C18_ClassifiedByExactHost ==
  Served /\ req.Host # Absent =>
    LET info == get_request_information(settings, req, req.path)
    IN  IF NamesBucket(req.Host)
        THEN /\ info.request_type = VirtualHost
             /\ info.bucket_name \o <<".">> \o settings.app.virtual_host = req.Host
        ELSE /\ info.request_type = Path
             /\ info.bucket_name = FirstSegment(req.path)

\* under the hosts the workload holds, what the classifier does instead: the
\* style is VirtualHost whenever a suffix-long stretch of the host agrees with
\* the suffix outside its dots, and the bucket is what stands before it
C18_ClassifiedByPattern ==
  Served /\ req.Host # Absent =>
    LET info == get_request_information(settings, req, req.path)
    IN  /\ NamesBucket(req.Host) => info.request_type = VirtualHost
        /\ req.Host \in {<<"v", ".", "h">>, <<"h">>} =>
             info.request_type = Path /\ info.bucket_name = FirstSegment(req.path)
        /\ req.Host \in Hosts \ {<<"v", ".", "h">>, <<"h">>} =>
             info.request_type = VirtualHost /\ info.bucket_name = <<"b">>

(***************************************************************************)
(* max-keys                                                                *)
(***************************************************************************)
\* the regular files a listing asked by r matches on filesystem f: the
\* children of the prefix directory under delimiter '/', its whole subtree
\* under the empty delimiter
Matching(r, f) ==
  {q \in (IF ~os_path_isdir(f, PrefixRoot(r)) THEN {}
          ELSE IF DelimiterOf(r) = <<"/">> THEN Children(f, PrefixRoot(r))
          ELSE Below(f, PrefixRoot(r))) : f[q].kind = "file"}

\* C19: whatever max-keys asks for, also less than the number of matching
\* files, a listing answers every matching object, IsTruncated is 'false',
\* MaxKeys is the requested text unchanged ('1000' when absent) and KeyCount
\* is the number of Contents entries, common prefixes not counted.
C19_MaxKeysNotEnforced ==
  Served /\ IsListing(req) /\ resp.op = "list" /\ resp.kind = "OK" =>
    /\ ListedKeys = Relative(req, prev, Matching(req, prev), "file", <<>>)
    /\ Len(resp.listing.Contents) = Cardinality(Matching(req, prev))
    /\ resp.listing.IsTruncated = "false"
    /\ resp.listing.MaxKeys = ArgGet(req, "maxkeys", <<"1", "0", "0", "0">>)
    /\ resp.listing.KeyCount = Len(resp.listing.Contents)

\* a listing asked with max-keys 1 answers two keys
C19_Witness ==
  /\ Served /\ IsListing(req) /\ resp.op = "list" /\ resp.kind = "OK"
  /\ req.args.maxkeys = <<"1">>
  /\ Cardinality(Matching(req, prev)) > 1
  /\ Len(resp.listing.Contents) > 1

\* common prefixes are answered next to the keys and not counted
C19_WitnessPrefixes ==
  /\ Served /\ IsListing(req) /\ resp.op = "list" /\ resp.kind = "OK"
  /\ req.args.maxkeys = Absent
  /\ resp.listing.CommonPrefixes # <<>>
  /\ resp.listing.Contents # <<>>

(***************************************************************************)
(* What a request leaves alone                                             *)
(***************************************************************************)
\* C20: a HEAD or a GET, of a bucket or of an object, answered with success
\* or with an error, leaves the filesystem of every bucket as it was; the
\* filesystem changes only under an authorized PUT or DELETE; and the
\* bucket and credential configuration is the loaded one after every request.
C20_ReadsChangeNothing ==
  /\ settings = Settings
  /\ Served /\ req.method \in {"HEAD", "GET"} => fs = prev
  /\ Served /\ fs # prev => req.method \in {"PUT", "DELETE"} /\ Authorized(req)

\* an object is downloaded from a filesystem that earlier requests changed
C20_Witness ==
  /\ Served /\ req.method = "GET" /\ resp.op = "download" /\ resp.kind = "OK"
  /\ prev # InitialFs
  /\ fs = prev /\ settings = Settings

====
